---- MODULE Spec2Model ----
(***************************************************************************)
(* A model of cleverdict.py (version 1.5.1): the CleverDict container, its *)
(* alias index, the name_to_aliases deriver and the expand context manager.*)
(*                                                                         *)
(* Python values that serve as keys are records [kind, num, txt]:          *)
(*   kind "int": the integer num;                                          *)
(*   kind "str": the text txt, a sequence of one-character strings;        *)
(*   kind "obj": a hashable that is neither text nor equal to its own hash *)
(*               (None, a tuple, ...), whose str() is txt.                 *)
(* A dict is a sequence of <<key, value>> pairs in insertion order, every  *)
(* key occurring at most once.                                             *)
(***************************************************************************)
EXTENDS Integers, Sequences, FiniteSets, TLC

VARIABLES
    cd,        \* the CleverDict instance: [items, aliases, attrs]
    other,     \* a second CleverDict instance (only SpecEq changes it)
    expand,    \* the class attribute CleverDict.expand
    scopes,    \* the expand objects of the active with-blocks, innermost last
    entered,   \* history: CleverDict.expand at the entry of each active with-block
    exc,       \* the exception that is propagating, "" when none
    last,      \* the last call: [op, name, alias, new, key, err, saves]
    out        \* what the last call returned, as a list: the aliases of
               \* name_to_aliases, the one value of a get, <<>> otherwise

vars == <<cd, other, expand, scopes, entered, exc, last, out>>

----------------------------------------------------------------------------
(* Python values *)

IntKey(n) == [kind |-> "int", num |-> n, txt |-> <<>>]
StrKey(s) == [kind |-> "str", num |-> 0, txt |-> s]
ObjKey(s) == [kind |-> "obj", num |-> 0, txt |-> s]

Letters ==
    {"a","b","c","d","e","f","g","h","i","j","k","l","m","n","o","p","q","r",
     "s","t","u","v","w","x","y","z","A","B","C","D","E","F","G","H","I","J",
     "K","L","M","N","O","P","Q","R","S","T","U","V","W","X","Y","Z"}

Digits == {"0","1","2","3","4","5","6","7","8","9"}

\* keyword.kwlist
kwlist ==
    { <<"F","a","l","s","e">>, <<"N","o","n","e">>, <<"T","r","u","e">>,
      <<"a","n","d">>, <<"a","s">>, <<"a","s","s","e","r","t">>,
      <<"a","s","y","n","c">>, <<"a","w","a","i","t">>,
      <<"b","r","e","a","k">>, <<"c","l","a","s","s">>,
      <<"c","o","n","t","i","n","u","e">>, <<"d","e","f">>, <<"d","e","l">>,
      <<"e","l","i","f">>, <<"e","l","s","e">>,
      <<"e","x","c","e","p","t">>, <<"f","i","n","a","l","l","y">>,
      <<"f","o","r">>, <<"f","r","o","m">>, <<"g","l","o","b","a","l">>,
      <<"i","f">>, <<"i","m","p","o","r","t">>, <<"i","n">>, <<"i","s">>,
      <<"l","a","m","b","d","a">>, <<"n","o","n","l","o","c","a","l">>,
      <<"n","o","t">>, <<"o","r">>, <<"p","a","s","s">>,
      <<"r","a","i","s","e">>, <<"r","e","t","u","r","n">>, <<"t","r","y">>,
      <<"w","h","i","l","e">>, <<"w","i","t","h">>, <<"y","i","e","l","d">> }

iskeyword(s) == s \in kwlist

\* the character may start an identifier / may continue one
IsIdStart(ch) == ch \in Letters \cup {"_"}
IsIdContinue(ch) == ch \in Letters \cup Digits \cup {"_"}

\* str.isidentifier
isidentifier(s) ==
    /\ Len(s) > 0
    /\ IsIdStart(s[1])
    /\ \A i \in 2..Len(s) : IsIdContinue(s[i])

\* str.isdigit of one character
isdigit(ch) == ch \in Digits

DigitChar(d) ==
    CASE d = 0 -> "0" [] d = 1 -> "1" [] d = 2 -> "2" [] d = 3 -> "3"
      [] d = 4 -> "4" [] d = 5 -> "5" [] d = 6 -> "6" [] d = 7 -> "7"
      [] d = 8 -> "8" [] d = 9 -> "9"

RECURSIVE NatToText(_)
NatToText(n) ==
    IF n < 10 THEN <<DigitChar(n)>>
    ELSE Append(NatToText(n \div 10), DigitChar(n % 10))

\* str(n) of an integer n
IntToText(n) == IF n < 0 THEN <<"-">> \o NatToText(-n) ELSE NatToText(n)

\* str(name), as text
ToText(name) == IF name.kind = "int" THEN IntToText(name.num) ELSE name.txt

\* name == hash(name): an int in the machine range hashes to itself, but
\* hash(-1) is -2; text and other objects are never equal to their hash
EqualsOwnHash(name) == name.kind = "int" /\ name.num # -1

\* the text "True" / "False" of str(bool(n))
BoolText(n) == IF n # 0 THEN <<"T","r","u","e">> ELSE <<"F","a","l","s","e">>

\* line 82: every character that cannot stand at its place becomes "_"
RECURSIVE Normalise(_, _)
Normalise(s, i) ==
    IF i > Len(s) THEN <<>>
    ELSE <<IF (IF i = 1 THEN IsIdStart(s[i]) ELSE IsIdContinue(s[i]))
           THEN s[i] ELSE "_">> \o Normalise(s, i + 1)

\* a name_to_aliases that appends the normalised name without comparing it
\* with the name (line 83)
name_to_aliases_unchecked(name, flag) ==
    IF ~flag THEN <<name>>
    ELSE IF EqualsOwnHash(name)
    THEN <<name, StrKey(<<"_">> \o IntToText(name.num))>>
         \o (IF name.num \in {0, 1}
             THEN <<StrKey(<<"_">> \o BoolText(name.num))>> ELSE <<>>)
    ELSE LET text == ToText(name)
             first == IF name.kind # "str" /\ isidentifier(text)
                         /\ ~iskeyword(text)
                      THEN <<StrKey(text)>> ELSE <<>>
             pre == IF text = <<>> \/ isdigit(text[1]) \/ iskeyword(text)
                    THEN <<"_">> \o text ELSE text
             norm_name == Normalise(pre, 1)
         IN  <<name>> \o first \o <<StrKey(norm_name)>>

\* name_to_aliases(name), under the value flag of CleverDict.expand
name_to_aliases(name, flag) ==
    IF ~flag THEN <<name>>
    ELSE IF EqualsOwnHash(name)
    THEN <<name, StrKey(<<"_">> \o IntToText(name.num))>>
         \o (IF name.num \in {0, 1}
             THEN <<StrKey(<<"_">> \o BoolText(name.num))>> ELSE <<>>)
    ELSE LET text == ToText(name)
             first == IF name.kind # "str" /\ isidentifier(text)
                         /\ ~iskeyword(text)
                      THEN <<StrKey(text)>> ELSE <<>>
             pre == IF text = <<>> \/ isdigit(text[1]) \/ iskeyword(text)
                    THEN <<"_">> \o text ELSE text
             norm_name == Normalise(pre, 1)
         IN  <<name>> \o first
             \o (IF text # norm_name THEN <<StrKey(norm_name)>> ELSE <<>>)

----------------------------------------------------------------------------
(* dict: a sequence of <<key, value>> pairs in insertion order *)

\* k in d
Has(d, k) == \E i \in 1..Len(d) : d[i][1] = k

\* d[k], for k in d
Lookup(d, k) == d[CHOOSE i \in 1..Len(d) : d[i][1] = k][2]

\* d[k] = v: a key that is present keeps its place, a new key goes last
Put(d, k, v) ==
    IF Has(d, k)
    THEN LET i == CHOOSE j \in 1..Len(d) : d[j][1] = k
         IN  SubSeq(d, 1, i - 1) \o <<<<k, v>>>> \o SubSeq(d, i + 1, Len(d))
    ELSE Append(d, <<k, v>>)

\* del d[k], for k in d
Del(d, k) == SelectSeq(d, LAMBDA p : p[1] # k)

\* list(d.keys())
RECURSIVE Keys(_)
Keys(d) == IF d = <<>> THEN <<>> ELSE <<Head(d)[1]>> \o Keys(Tail(d))

\* s[1:] of a list
From1(s) == IF s = <<>> THEN <<>> ELSE Tail(s)

\* the elements of a list, as a set
Range(s) == {s[i] : i \in 1..Len(s)}

\* d1 == d2 of two dicts (and of their items views): the same keys with the
\* same values, in whatever order
DictEq(d1, d2) == Range(d1) = Range(d2)

----------------------------------------------------------------------------
(* CleverDict: [items |-> the dict itself, aliases |-> self._aliases,      *)
(* attrs |-> the other entries of vars(self)].  A method is an operator    *)
(* from the instance (and CleverDict.expand, where the method reads it) to *)
(* [cd |-> the instance afterwards, err |-> the exception raised or "",    *)
(*  key |-> the key the name resolved to, saves |-> the calls of save].    *)

NoKey == [kind |-> "none", num |-> 0, txt |-> <<>>]

Result(self, err, key, saves) ==
    [cd |-> self, err |-> err, key |-> key, saves |-> saves]

\* CleverDict(): lines 110-111 with nothing to load
Empty == [items |-> <<>>, aliases |-> <<>>, attrs |-> <<>>]

\* _add_alias(name, alias)
_add_alias(self, name, alias) ==
    IF Has(self.aliases, alias) /\ Lookup(self.aliases, alias) # name
    THEN Result(self, "KeyError", name, <<>>)
    ELSE Result([self EXCEPT !.aliases = Put(@, alias, name)], "", name, <<>>)

\* for al in als: self._add_alias(name, al), stopping at the first exception
RECURSIVE AddAliases(_, _, _)
AddAliases(self, name, als) ==
    IF als = <<>> THEN Result(self, "", name, <<>>)
    ELSE LET r == _add_alias(self, name, Head(als))
         IN  IF r.err # "" THEN r ELSE AddAliases(r.cd, name, Tail(als))

\* save(name, value): the default does nothing; the call is recorded with
\* what self[name] is when it is made ("none" when name is not stored)
save(self, name, value) ==
    <<name, value, IF Has(self.items, name) THEN Lookup(self.items, name) ELSE "none">>

\* a __setattr__ that registers a new name alone, without its derived aliases
setattr_without_derived(self, name, value, flag) ==
    LET reg == IF Has(self.aliases, name)
               THEN Result(self, "", Lookup(self.aliases, name), <<>>)
               ELSE IF ~Has(self.items, name)
               THEN AddAliases(self, name, <<name>>)
               ELSE Result(self, "", name, <<>>)
    IN  IF reg.err # "" THEN reg
        ELSE LET stored == [reg.cd EXCEPT !.items = Put(@, reg.key, value)]
             IN  Result(stored, "", reg.key, <<save(stored, reg.key, value)>>)

\* a __setattr__ that hands save the name as the caller spelled it
setattr_saves_spelling(self, name, value, flag) ==
    LET reg == IF Has(self.aliases, name)
               THEN Result(self, "", Lookup(self.aliases, name), <<>>)
               ELSE IF ~Has(self.items, name)
               THEN AddAliases(self, name, name_to_aliases(name, flag))
               ELSE Result(self, "", name, <<>>)
    IN  IF reg.err # "" THEN reg
        ELSE LET stored == [reg.cd EXCEPT !.items = Put(@, reg.key, value)]
             IN  Result(stored, "", reg.key, <<save(stored, name, value)>>)

\* a __setattr__ that stores under the name as the caller spelled it
setattr_stores_under_spelling(self, name, value, flag) ==
    LET reg == IF Has(self.aliases, name)
               THEN Result(self, "", Lookup(self.aliases, name), <<>>)
               ELSE IF ~Has(self.items, name)
               THEN AddAliases(self, name, name_to_aliases(name, flag))
               ELSE Result(self, "", name, <<>>)
    IN  IF reg.err # "" THEN reg
        ELSE LET stored == [reg.cd EXCEPT !.items = Put(@, name, value)]
             IN  Result(stored, "", reg.key, <<save(stored, reg.key, value)>>)

\* __setattr__(name, value), which is __setitem__ too
__setattr__(self, name, value, flag) ==
    LET reg == IF Has(self.aliases, name)
               THEN Result(self, "", Lookup(self.aliases, name), <<>>)
               ELSE IF ~Has(self.items, name)
               THEN AddAliases(self, name, name_to_aliases(name, flag))
               ELSE Result(self, "", name, <<>>)
    IN  IF reg.err # "" THEN reg
        ELSE LET stored == [reg.cd EXCEPT !.items = Put(@, reg.key, value)]
             IN  Result(stored, "", reg.key, <<save(stored, reg.key, value)>>)

\* the attribute name "_aliases", whose value is the alias index
K_aliases == StrKey(<<"_", "a", "l", "i", "a", "s", "e", "s">>)

\* a setattr_direct that goes through __setattr__ and so makes an item
setattr_direct_as_item(self, name, value) ==
    Result([self EXCEPT !.items = Put(@, name, value),
                        !.aliases = Put(@, name, name)], "", NoKey, <<>>)

\* setattr_direct(name, value): object.__setattr__ sets the instance
\* attribute name, and the attribute "_aliases" is the alias index
setattr_direct(self, name, value) ==
    IF name = K_aliases
    THEN Result([self EXCEPT !.aliases = value], "", NoKey, <<>>)
    ELSE Result([self EXCEPT !.attrs = Put(@, name, value)], "", NoKey, <<>>)

\* get_key(name)
get_key(self, name) ==
    IF Has(self.aliases, name)
    THEN Result(self, "", Lookup(self.aliases, name), <<>>)
    ELSE Result(self, "KeyError", NoKey, <<>>)

\* __getitem__(name): [err, value]; dict.__getitem__ raises KeyError for a
\* key that is not stored
__getitem__(self, name) ==
    LET k == get_key(self, name)
    IN  IF k.err # "" THEN [err |-> k.err, value |-> "none"]
        ELSE IF ~Has(self.items, k.key) THEN [err |-> "KeyError", value |-> "none"]
        ELSE [err |-> "", value |-> Lookup(self.items, k.key)]

\* a __getattr__ that lets the KeyError of the lookup through
getattr_raises_keyerror(self, name) == __getitem__(self, name)

\* __getattr__(name), which Python calls for an attribute access self.name
\* when name is no attribute of the instance or of its class
__getattr__(self, name) ==
    LET g == __getitem__(self, name)
    IN  [g EXCEPT !.err = IF @ = "KeyError" THEN "AttributeError" ELSE @]

\* a __delitem__ that unregisters the key and leaves its other aliases
delitem_keeps_aliases(self, key) ==
    LET k == get_key(self, key)
    IN  IF k.err # "" THEN k
        ELSE IF ~Has(self.items, k.key) THEN Result(self, "KeyError", k.key, <<>>)
        ELSE Result([self EXCEPT !.items = Del(@, k.key),
                                 !.aliases = SelectSeq(@, LAMBDA p : p[1] # k.key)],
                    "", k.key, <<>>)

\* __delitem__(key); dict.__delitem__ raises KeyError for a key that is not
\* stored
__delitem__(self, key) ==
    LET k == get_key(self, key)
    IN  IF k.err # "" THEN k
        ELSE IF ~Has(self.items, k.key) THEN Result(self, "KeyError", k.key, <<>>)
        ELSE Result([self EXCEPT !.items = Del(@, k.key),
                                 !.aliases = SelectSeq(@, LAMBDA p : p[2] # k.key)],
                    "", k.key, <<>>)

\* __delattr__(k)
__delattr__(self, k) ==
    LET r == __delitem__(self, k)
    IN  [r EXCEPT !.err = IF @ = "KeyError" THEN "AttributeError" ELSE @]

\* get_aliases(name), for a name that resolves
get_aliases(self, name) ==
    Keys(SelectSeq(self.aliases, LAMBDA p : p[2] = get_key(self, name).key))

\* an add_alias that always derives in full, whatever CleverDict.expand is
add_alias_full_derivation(self, name, alias, flag) ==
    LET k == get_key(self, name)
    IN  IF k.err # "" THEN k
        ELSE AddAliases(self, k.key, name_to_aliases(alias, TRUE))

\* add_alias(name, alias) for one alias
add_alias(self, name, alias, flag) ==
    LET k == get_key(self, name)
    IN  IF k.err # "" THEN k
        ELSE AddAliases(self, k.key, name_to_aliases(alias, flag))

\* lines 300-302: for alx in alxs: if alx in list(self._aliases.keys())[1:]:
\*     del self._aliases[alx]
RECURSIVE DeleteDerived(_, _)
DeleteDerived(aliases, alxs) ==
    IF alxs = <<>> THEN aliases
    ELSE LET alx == Head(alxs)
         IN  DeleteDerived(IF alx \in Range(From1(Keys(aliases)))
                           THEN Del(aliases, alx) ELSE aliases,
                           Tail(alxs))

\* a delete_alias without the check of line 297, which refuses a stored key
delete_alias_unchecked(self, alias, flag) ==
    IF ~Has(self.aliases, alias) THEN Result(self, "KeyError", NoKey, <<>>)
    ELSE Result([self EXCEPT !.aliases =
                    DeleteDerived(Del(@, alias), name_to_aliases(alias, flag))],
                "", Lookup(self.aliases, alias), <<>>)

\* delete_alias(alias) for one alias
delete_alias(self, alias, flag) ==
    IF ~Has(self.aliases, alias) THEN Result(self, "KeyError", NoKey, <<>>)
    ELSE IF Has(self.items, alias) THEN Result(self, "KeyError", alias, <<>>)
    ELSE Result([self EXCEPT !.aliases =
                    DeleteDerived(Del(@, alias), name_to_aliases(alias, flag))],
                "", Lookup(self.aliases, alias), <<>>)

\* vars(self): the instance's attributes, "_aliases" among them
Vars(self) == [_aliases |-> self.aliases, attrs |-> self.attrs]

\* v1 == v2 of two vars(): the same attributes with equal values, the value
\* of "_aliases" being a dict
VarsEq(v1, v2) == DictEq(v1._aliases, v2._aliases) /\ DictEq(v1.attrs, v2.attrs)

\* an __eq__ that leaves "_aliases" out of the attributes it compares
eq_without_aliases(self, oth) ==
    DictEq(self.items, oth.items) /\ DictEq(Vars(self).attrs, Vars(oth).attrs)

\* self == other, for two CleverDict
__eq__(self, oth) ==
    DictEq(self.items, oth.items) /\ VarsEq(Vars(self), Vars(oth))

\* an __enter__ that sets CleverDict.expand before it saves it
enter_saves_after_set(ok, flag) ==
    [obj |-> [ok |-> ok, save_expand |-> ok], flag |-> ok]

\* expand(ok).__enter__(): [obj |-> the context manager, flag |-> CleverDict.expand]
__enter__(ok, flag) ==
    [obj |-> [ok |-> ok, save_expand |-> flag], flag |-> ok]

\* __exit__ of the context manager obj: CleverDict.expand afterwards
__exit__(obj) == obj.save_expand

\* an optional argument: None, or the value given
None == [given |-> FALSE, value |-> <<>>]
Some(v) == [given |-> TRUE, value |-> v]

\* update(_mapping): self[k] = v for every item of _mapping, in its order,
\* up to the first exception
RECURSIVE update(_, _, _)
update(self, _mapping, flag) ==
    IF _mapping = <<>> THEN Result(self, "", NoKey, <<>>)
    ELSE LET r == __setattr__(self, Head(_mapping)[1], Head(_mapping)[2], flag)
         IN  IF r.err # "" THEN r
             ELSE LET rest == update(r.cd, Tail(_mapping), flag)
                  IN  Result(rest.cd, rest.err, rest.key, r.saves \o rest.saves)

\* lines 115-116: for k, v in _aliases.items(): self._add_alias(v, k)
RECURSIVE AddAliasItems(_, _)
AddAliasItems(self, _aliases) ==
    IF _aliases = <<>> THEN Result(self, "", NoKey, <<>>)
    ELSE LET r == _add_alias(self, Head(_aliases)[2], Head(_aliases)[1])
         IN  IF r.err # "" THEN r ELSE AddAliasItems(r.cd, Tail(_aliases))

\* lines 117-118: for k, v in _vars.items(): self.setattr_direct(k, v)
RECURSIVE SetVars(_, _)
SetVars(self, _vars) ==
    IF _vars = <<>> THEN Result(self, "", NoKey, <<>>)
    ELSE SetVars(setattr_direct(self, Head(_vars)[1], Head(_vars)[2]).cd,
                 Tail(_vars))

\* CleverDict(_mapping, _aliases, _vars), called while CleverDict.expand is
\* flag; the with-block of line 112 sets CleverDict.expand for its body and
\* restores it, so the caller's flag is the same afterwards
__init__(_mapping, _aliases, _vars, flag) ==
    LET fresh == setattr_direct(Empty, K_aliases, <<>>).cd
        block == __enter__(IF ~_aliases.given THEN flag ELSE FALSE, flag)
        loaded == update(fresh, _mapping, block.flag)
        aliased == IF loaded.err # "" \/ ~_aliases.given THEN loaded
                   ELSE AddAliasItems(loaded.cd, _aliases.value)
        r == IF aliased.err # "" THEN aliased ELSE SetVars(aliased.cd, _vars)
    IN  Result(r.cd, r.err, NoKey, loaded.saves)

\* the three arguments __repr__ writes: the items, the aliases that are not
\* keys of the dict, and the attributes other than "_aliases"
__repr__(self) ==
    [_mapping |-> self.items,
     _aliases |-> SelectSeq(self.aliases, LAMBDA p : ~Has(self.items, p[1])),
     _vars |-> self.attrs]

----------------------------------------------------------------------------
(* The calls a program makes *)

\* the keys and aliases the calls are made with: 1 derives "_1" and "_True",
\* -1 derives "_1" (str(-1) normalised), "_1" derives nothing
K1 == IntKey(1)
KM1 == IntKey(-1)
K_1 == StrKey(<<"_", "1">>)
K_True == StrKey(<<"_", "T", "r", "u", "e">>)

\* the names given to delete, and the aliases given to add_alias and delete_alias
Names == {K1, KM1, K_1}
\* the names given to set and to add_alias
KeyNames == {K1, K_1}
Values == {"v1", "v2"}

\* the deepest nesting of with-blocks
MaxDepth == 2

\* the record of a call: its arguments, new (set only: the name was neither
\* registered nor stored, line 138), and what the call returned
Call(op, name, alias, new, r) ==
    [op |-> op, name |-> name, alias |-> alias, new |-> new,
     key |-> r.key, err |-> r.err, saves |-> r.saves]

NoCall(op) == Call(op, NoKey, NoKey, FALSE, Result(Empty, "", NoKey, <<>>))

Init ==
    /\ cd = Empty
    /\ other = Empty
    /\ expand = TRUE
    /\ scopes = <<>>
    /\ entered = <<>>
    /\ exc = ""
    /\ last = NoCall("init")
    /\ out = <<>>

\* cd[name] = value
SetItem(name, value) ==
    /\ exc = ""
    /\ LET r == __setattr__(cd, name, value, expand)
       IN  /\ cd' = r.cd
           /\ exc' = r.err
           /\ last' = Call("set", name, NoKey,
                         ~Has(cd.aliases, name) /\ ~Has(cd.items, name), r)
    /\ UNCHANGED <<other, expand, scopes, entered, out>>

\* del cd[name]
DelItem(name) ==
    /\ exc = ""
    /\ LET r == __delitem__(cd, name)
       IN  /\ cd' = r.cd
           /\ exc' = r.err
           /\ last' = Call("delete", name, NoKey, FALSE, r)
    /\ UNCHANGED <<other, expand, scopes, entered, out>>

\* cd.add_alias(name, alias)
AddAlias(name, alias) ==
    /\ exc = ""
    /\ LET r == add_alias(cd, name, alias, expand)
       IN  /\ cd' = r.cd
           /\ exc' = r.err
           /\ last' = Call("add_alias", name, alias, FALSE, r)
    /\ UNCHANGED <<other, expand, scopes, entered, out>>

\* cd.delete_alias(alias)
DeleteAlias(alias) ==
    /\ exc = ""
    /\ LET r == delete_alias(cd, alias, expand)
       IN  /\ cd' = r.cd
           /\ exc' = r.err
           /\ last' = Call("delete_alias", NoKey, alias, FALSE, r)
    /\ UNCHANGED <<other, expand, scopes, entered, out>>

\* with expand(ok):
Enter(ok) ==
    /\ exc = ""
    /\ Len(scopes) < MaxDepth
    /\ LET r == __enter__(ok, expand)
       IN  /\ scopes' = Append(scopes, r.obj)
           /\ expand' = r.flag
    /\ entered' = Append(entered, expand)
    /\ last' = NoCall("enter")
    /\ UNCHANGED <<cd, other, exc, out>>

\* the innermost with-block ends, at its end or because an exception leaves it
Exit ==
    /\ scopes # <<>>
    /\ expand' = __exit__(scopes[Len(scopes)])
    /\ scopes' = SubSeq(scopes, 1, Len(scopes) - 1)
    /\ entered' = SubSeq(entered, 1, Len(entered) - 1)
    /\ last' = NoCall("exit")
    /\ UNCHANGED <<cd, other, exc, out>>

\* an except clause catches the exception
Catch ==
    /\ exc # ""
    /\ exc' = ""
    /\ last' = NoCall("catch")
    /\ UNCHANGED <<cd, other, expand, scopes, entered, out>>

Next ==
    \/ \E name \in KeyNames, value \in Values : SetItem(name, value)
    \/ \E name \in Names : DelItem(name)
    \/ \E name \in KeyNames, alias \in Names : AddAlias(name, alias)
    \/ \E alias \in Names : DeleteAlias(alias)
    \/ \E ok \in BOOLEAN : Enter(ok)
    \/ Exit
    \/ Catch

Spec == Init /\ [][Next]_vars

----------------------------------------------------------------------------
(* Two instances, to compare: the calls are made on cd or on other *)

Ka == StrKey(<<"a">>)

\* the names set in either instance, the aliases added, the attributes set
EqKeyNames == {K_1, Ka}
EqAliases == {K1, KM1}
Kx == StrKey(<<"x">>)
AttrNames == {Kx}

Self(w) == IF w = "cd" THEN cd ELSE other

Becomes(w, r) ==
    IF w = "cd" THEN cd' = r.cd /\ UNCHANGED other
    ELSE other' = r.cd /\ UNCHANGED cd

\* w[name] = value
EqSetItem(w, name, value) ==
    /\ exc = ""
    /\ LET r == __setattr__(Self(w), name, value, expand)
       IN  Becomes(w, r) /\ exc' = r.err
    /\ UNCHANGED <<expand, scopes, entered, last, out>>

\* w.add_alias(name, alias)
EqAddAlias(w, name, alias) ==
    /\ exc = ""
    /\ LET r == add_alias(Self(w), name, alias, expand)
       IN  Becomes(w, r) /\ exc' = r.err
    /\ UNCHANGED <<expand, scopes, entered, last, out>>

\* w.setattr_direct(name, value)
EqSetattrDirect(w, name, value) ==
    /\ exc = ""
    /\ LET r == setattr_direct(Self(w), name, value)
       IN  Becomes(w, r) /\ exc' = r.err
    /\ UNCHANGED <<expand, scopes, entered, last, out>>

NextEq ==
    \/ \E w \in {"cd", "other"}, name \in EqKeyNames, value \in Values :
           EqSetItem(w, name, value)
    \/ \E w \in {"cd", "other"}, name \in EqKeyNames, alias \in EqAliases :
           EqAddAlias(w, name, alias)
    \/ \E w \in {"cd", "other"}, name \in AttrNames, value \in Values :
           EqSetattrDirect(w, name, value)

SpecEq == Init /\ [][NextEq]_vars

----------------------------------------------------------------------------
(* One instance with direct attributes, read and written both ways *)

\* the attribute names given to setattr_direct besides "_aliases": "_1" is
\* a name that items and aliases use too
DirectNames == {K_1}
\* the names of attribute style access (text only)
AttrStyleNames == {K_1, K_True}

\* cd.setattr_direct(name, value)
SetattrDirect(name, value) ==
    /\ exc = ""
    /\ LET r == setattr_direct(cd, name, value)
       IN  /\ cd' = r.cd
           /\ exc' = r.err
           /\ last' = Call("setattr_direct", name, NoKey, FALSE, r)
    /\ UNCHANGED <<other, expand, scopes, entered, out>>

\* cd[name]
GetItem(name) ==
    /\ exc = ""
    /\ LET g == __getitem__(cd, name)
       IN  /\ exc' = g.err
           /\ out' = IF g.err = "" THEN <<g.value>> ELSE <<>>
           /\ last' = Call("get", name, NoKey, FALSE,
                           Result(cd, g.err, get_key(cd, name).key, <<>>))
    /\ UNCHANGED <<cd, other, expand, scopes, entered>>

\* cd.name, for a name that is no attribute of the instance
GetAttr(name) ==
    /\ exc = ""
    /\ ~Has(cd.attrs, name)
    /\ LET g == __getattr__(cd, name)
       IN  /\ exc' = g.err
           /\ out' = IF g.err = "" THEN <<g.value>> ELSE <<>>
           /\ last' = Call("getattr", name, NoKey, FALSE,
                           Result(cd, g.err, get_key(cd, name).key, <<>>))
    /\ UNCHANGED <<cd, other, expand, scopes, entered>>

\* del cd.name
DelAttr(name) ==
    /\ exc = ""
    /\ LET r == __delattr__(cd, name)
       IN  /\ cd' = r.cd
           /\ exc' = r.err
           /\ last' = Call("delattr", name, NoKey, FALSE, r)
    /\ UNCHANGED <<other, expand, scopes, entered, out>>

NextAttr ==
    \/ \E name \in KeyNames, value \in Values : SetItem(name, value)
    \/ \E name \in Names : DelItem(name)
    \/ \E name \in KeyNames, alias \in Names : AddAlias(name, alias)
    \/ \E alias \in Names : DeleteAlias(alias)
    \/ \E name \in DirectNames, value \in Values : SetattrDirect(name, value)
    \/ SetattrDirect(K_aliases, <<>>)
    \/ \E name \in Names : GetItem(name)
    \/ \E name \in AttrStyleNames : GetAttr(name)
    \/ \E name \in AttrStyleNames : DelAttr(name)
    \/ Catch

SpecAttr == Init /\ [][NextAttr]_vars

----------------------------------------------------------------------------
(* The deriver alone, applied to many names under both expansion modes *)

\* the characters of the names: letters that spell the keyword "if", a
\* digit, the underscore, and a blank, which no identifier holds
Chars == {"i", "f", "1", "_", " "}
\* the longest name, and the largest integer
MaxLen == 2
MaxInt == 2

\* the texts of at most n characters
RECURSIVE Texts(_)
Texts(n) ==
    IF n = 0 THEN {<<>>}
    ELSE Texts(n - 1) \cup {Append(t, c) : t \in Texts(n - 1), c \in Chars}

\* integers, texts, and other hashable objects with these texts as str()
DeriveNames ==
    {IntKey(n) : n \in -MaxInt..MaxInt}
    \cup {StrKey(t) : t \in Texts(MaxLen)}
    \cup {ObjKey(t) : t \in Texts(MaxLen)}

\* name_to_aliases(name)
Derive(name) ==
    /\ exc = ""
    /\ out' = name_to_aliases(name, expand)
    /\ last' = Call("name_to_aliases", name, NoKey, FALSE,
                    Result(Empty, "", NoKey, <<>>))
    /\ UNCHANGED <<cd, other, expand, scopes, entered, exc>>

NextDerive ==
    \/ \E name \in DeriveNames : Derive(name)
    \/ \E ok \in BOOLEAN : Enter(ok)
    \/ Exit

SpecDerive == Init /\ [][NextDerive]_vars

----------------------------------------------------------------------------
(* Properties *)

\* get(a) on the instance self: the value, or "KeyError"
Get(self, a) ==
    LET g == __getitem__(self, a) IN IF g.err # "" THEN g.err ELSE g.value

\* the aliases registered for the key k in self, as a set
AliasesOf(self, k) ==
    {self.aliases[i][1] : i \in {j \in 1..Len(self.aliases) : self.aliases[j][2] = k}}

\* the set of registered aliases
Registered(self) == Range(Keys(self.aliases))

\* C1: every canonical key k stored in the entries is registered in the alias
\* index as its own alias, so get(k) returns k's own value and k is one of
\* get_aliases(k).
C1_SelfAlias ==
    \A i \in 1..Len(cd.items) :
        LET k == cd.items[i][1]
        IN  /\ Has(cd.aliases, k)
            /\ Lookup(cd.aliases, k) = k
            /\ Get(cd, k) = cd.items[i][2]
            /\ k \in Range(get_aliases(cd, k))

\* C2, as claimed: after any successful set(k, v) made with expansion
\* enabled, every alias a that name_to_aliases derives from k resolves, and
\* get(a) is get(k).
C2_AliasTransparencyAnySet ==
    (last.op = "set" /\ last.err = "" /\ expand)
    => \A a \in Range(name_to_aliases(last.name, TRUE)) :
           /\ Get(cd, a) # "KeyError"
           /\ Get(cd, a) = Get(cd, last.name)

\* C2, amended: after a successful set(k, v) made with expansion enabled of
\* a key k that was neither registered in the alias index nor stored before
\* the call, every alias a that name_to_aliases derives from k is registered
\* for k, and get(a) succeeds and returns v, the value get(k) returns.
C2_AliasTransparency ==
    [][(/\ last'.op = "set" /\ last'.err = "" /\ expand
        /\ ~Has(cd.aliases, last'.name) /\ ~Has(cd.items, last'.name))
       => \A a \in Range(name_to_aliases(last'.name, TRUE)) :
              /\ Has(cd'.aliases, a)
              /\ Lookup(cd'.aliases, a) = last'.name
              /\ Get(cd', a) = last'.saves[1][2]
              /\ Get(cd', a) = Get(cd', last'.name)]_vars

\* C2's case: 1 was set as a new key under expansion, so that "_True", derived
\* from 1, reads the value stored for 1
C2_Witness ==
    /\ last.op = "set" /\ last.err = "" /\ last.new /\ expand
    /\ last.name = K1
    /\ Len(cd.items) = 2
    /\ Get(cd, K_True) = "v2"

\* C3: after a successful delete(x), x an alias registered for the canonical
\* key k, k is no longer stored, no alias registered for k remains in the
\* alias index, and get of each of them fails with KeyError.
C3_DeletePurges ==
    [][(last'.op = "delete" /\ last'.err = "")
       => LET k == last'.key
          IN  /\ Has(cd.aliases, last'.name)
              /\ Lookup(cd.aliases, last'.name) = k
              /\ ~Has(cd'.items, k)
              /\ \A i \in 1..Len(cd'.aliases) : cd'.aliases[i][2] # k
              /\ \A a \in AliasesOf(cd, k) :
                     ~Has(cd'.aliases, a) /\ Get(cd', a) = "KeyError"]_vars

\* C3's case: the entry of 1 was deleted through "_1", an alias that is not
\* its key, while an alias of another key stays registered
C3_Witness ==
    /\ last.op = "delete" /\ last.err = ""
    /\ last.name = K_1 /\ last.key = K1
    /\ cd.aliases # <<>>

\* C4: add_alias(k2, a), a being registered for another canonical key than
\* the one k2 resolves to, fails with KeyError and changes neither the
\* entries nor the alias index; a being registered for the canonical key of
\* k2, the call raises nothing and changes nothing.
C4_CollisionOrNoOp ==
    [][(/\ last'.op = "add_alias"
        /\ Has(cd.aliases, last'.name)
        /\ Has(cd.aliases, last'.alias))
       => IF Lookup(cd.aliases, last'.alias) # Lookup(cd.aliases, last'.name)
          THEN last'.err = "KeyError" /\ cd' = cd
          ELSE last'.err = "" /\ cd' = cd]_vars

\* C4, the collision alone (it holds): a registered for another canonical key
\* makes add_alias(k2, a) fail with KeyError and change nothing.
C4_CollisionRejected ==
    [][(/\ last'.op = "add_alias"
        /\ Has(cd.aliases, last'.name)
        /\ Has(cd.aliases, last'.alias)
        /\ Lookup(cd.aliases, last'.alias) # Lookup(cd.aliases, last'.name))
       => last'.err = "KeyError" /\ cd' = cd]_vars

\* the mapping a dict holds
MapOf(d) == [k \in Range(Keys(d)) |-> Lookup(d, k)]

\* C5, as claimed: two instances are equal exactly when they hold the same
\* items and the same direct attributes other than the alias index; the
\* alias index does not count.
C5_EqualityIgnoresAliases ==
    __eq__(cd, other)
    <=> (MapOf(cd.items) = MapOf(other.items)
         /\ MapOf(cd.attrs) = MapOf(other.attrs))

\* C5, amended: two instances are equal exactly when they hold the same
\* items and the same direct attributes, the alias index among them: with
\* the same items and different alias indexes they are not equal. The order
\* of the items, of the attributes and of the aliases does not count.
C5_EqualityCountsAliases ==
    __eq__(cd, other)
    <=> (/\ MapOf(cd.items) = MapOf(other.items)
         /\ MapOf(cd.attrs) = MapOf(other.attrs)
         /\ MapOf(cd.aliases) = MapOf(other.aliases))

\* C5's case: the same two items and the same attribute in both instances,
\* the alias -1 added in one of them only: they are not equal
C5_Witness ==
    /\ Len(cd.items) = 2
    /\ MapOf(cd.items) = MapOf(other.items)
    /\ cd.attrs # <<>>
    /\ MapOf(cd.attrs) = MapOf(other.attrs)
    /\ Has(cd.aliases, KM1) /\ ~Has(other.aliases, KM1)
    /\ ~__eq__(cd, other)

\* C6: when a with-block of expand ends, at its end or because an exception
\* leaves it, CleverDict.expand is what it was when the block was entered;
\* the end of an inner block restores what the enclosing block had set.
C6_ScopeRestores ==
    [][last'.op = "exit"
       => /\ expand' = entered[Len(entered)]
          /\ Len(scopes) >= 2 => expand' = scopes[Len(scopes) - 1].ok]_vars

\* C6's case: inside with expand(False), an inner with expand(True) was left
\* by an exception, and CleverDict.expand is False again
C6_Witness ==
    /\ last.op = "exit" /\ exc # ""
    /\ Len(scopes) = 1 /\ ~scopes[1].ok /\ scopes[1].save_expand
    /\ ~expand
    /\ cd.aliases # <<>>

\* C7: a successful set(key, v) of a key that is not registered adds, with
\* expansion disabled, exactly the alias-index entry key -> key, and, with
\* expansion enabled, the entries of key and of its derived aliases.
C7_ExpansionToggle ==
    [][(last'.op = "set" /\ last'.err = "" /\ ~Has(cd.aliases, last'.name))
       => LET key == last'.name
          IN  IF ~expand
              THEN cd'.aliases = Append(cd.aliases, <<key, key>>)
              ELSE \A a \in Range(name_to_aliases(key, TRUE)) :
                       Has(cd'.aliases, a) /\ Lookup(cd'.aliases, a) = key]_vars

\* C7 for a key that is not stored either (it holds): the claim fails only
\* for a stored key that lost its own alias
C7_ExpansionToggleNewKey ==
    [][(last'.op = "set" /\ last'.err = "" /\ last'.new)
       => LET key == last'.name
          IN  IF ~expand
              THEN cd'.aliases = Append(cd.aliases, <<key, key>>)
              ELSE \A a \in Range(name_to_aliases(key, TRUE)) :
                       Has(cd'.aliases, a) /\ Lookup(cd'.aliases, a) = key]_vars

\* C8: a successful delete_alias(a) leaves the entries as they are and
\* removes from the alias index a alone when expansion is disabled, and, when
\* it is enabled, a and every other registered alias derived from a, except
\* the canonical key a resolved to, which stays registered and resolvable.
C8_DeleteAliasCascade ==
    [][(last'.op = "delete_alias" /\ last'.err = "")
       => LET a == last'.alias
              k == Lookup(cd.aliases, a)
              gone == IF expand
                      THEN {a} \cup ((Range(name_to_aliases(a, TRUE))
                                      \cap Registered(cd)) \ {k})
                      ELSE {a}
          IN  /\ cd'.items = cd.items
              /\ cd'.aliases = SelectSeq(cd.aliases, LAMBDA p : p[1] \notin gone)
              /\ (k # a /\ Has(cd.aliases, k)) => Has(cd'.aliases, k)
              /\ (k # a /\ Has(cd.aliases, k)) => Get(cd', k) = Get(cd, k)]_vars

\* C8, its last part alone: the canonical key that a resolved to stays
\* registered
C8_KeyPreserved ==
    [][(last'.op = "delete_alias" /\ last'.err = "")
       => LET k == Lookup(cd.aliases, last'.alias)
          IN  (Has(cd.items, k) /\ Has(cd.aliases, k)) => Has(cd'.aliases, k)]_vars

\* C9: delete_alias(a) of a canonical key stored in the entries, or of an a
\* that is not registered, fails with KeyError and changes neither the
\* entries nor the alias index.
C9_IllegalDeleteAlias ==
    [][(/\ last'.op = "delete_alias"
        /\ (Has(cd.items, last'.alias) \/ ~Has(cd.aliases, last'.alias)))
       => last'.err = "KeyError" /\ cd' = cd]_vars

\* C9's case: delete_alias of the stored and registered key "_1" was refused
C9_Witness ==
    /\ last.op = "delete_alias" /\ last.err = "KeyError"
    /\ last.alias = K_1
    /\ Has(cd.items, K_1) /\ Has(cd.aliases, K_1)

\* C10, as claimed: a successful add_alias(key, a) registers a and every form
\* that full derivation yields from a, whatever CleverDict.expand is.
C10_AddAliasFullDerivation ==
    (last.op = "add_alias" /\ last.err = "")
    => \A al \in Range(name_to_aliases(last.alias, TRUE)) :
           Has(cd.aliases, al) /\ Lookup(cd.aliases, al) = last.key

\* C10, amended: a successful add_alias(key, a) registers, for the canonical
\* key of key, a and the forms name_to_aliases derives from a under the
\* current expansion mode: every derived form when expansion is enabled, and
\* a alone when it is disabled (the alias index gains no other entry).
C10_AddAliasUnderMode ==
    [][(last'.op = "add_alias" /\ last'.err = "")
       => /\ last'.key = Lookup(cd.aliases, last'.name)
          /\ \A al \in Range(name_to_aliases(last'.alias, expand)) :
                 Has(cd'.aliases, al) /\ Lookup(cd'.aliases, al) = last'.key
          /\ expand => \A al \in Range(name_to_aliases(last'.alias, TRUE)) :
                           Has(cd'.aliases, al)
          /\ ~expand => cd'.aliases = Put(cd.aliases, last'.alias, last'.key)
          /\ cd'.items = cd.items]_vars

\* C10's case: with expansion disabled, 1 became an alias of "_1" and its
\* derived form "_True" is not registered
C10_Witness ==
    /\ last.op = "add_alias" /\ last.err = "" /\ ~expand
    /\ last.alias = K1 /\ last.key = K_1
    /\ Has(cd.aliases, K1)
    /\ ~Has(cd.aliases, K_True)

\* the key a set of name stores under: the target of name when name is a
\* registered alias, name itself otherwise
Resolved(self, name) ==
    IF Has(self.aliases, name) THEN Lookup(self.aliases, name) ELSE name

\* C11: every successful set(x, v) calls save exactly once, when the value is
\* already stored, with the canonical key x resolved to (not the spelling x)
\* and v; a set that fails with a collision does not call it, and delete,
\* add_alias and delete_alias never call it.
C11_SaveOncePerSet ==
    [][/\ \A name \in KeyNames, value \in Values :
              SetItem(name, value) =>
                  IF last'.err = ""
                  THEN last'.saves = <<<<Resolved(cd, name), value, value>>>>
                  ELSE last'.saves = <<>>
       /\ last'.op \in {"delete", "add_alias", "delete_alias"}
              => last'.saves = <<>>]_vars

\* a set through the alias "_1" of the key 1 has called save once, with 1
C11_Witness ==
    /\ last.op = "set" /\ last.err = ""
    /\ last.name = K_1 /\ last.key = K1
    /\ last.saves = <<<<K1, "v2", "v2">>>>

\* C12: set(a, v), where a is a registered alias of a canonical key k that is
\* in the entries, changes only the value under k: it succeeds, the keys of
\* the entries and their order stay, every other value stays, and the whole
\* alias index stays.
C12_SetThroughAliasFrame ==
    [][\A name \in KeyNames, value \in Values :
           (/\ SetItem(name, value)
            /\ Has(cd.aliases, name)
            /\ Has(cd.items, Lookup(cd.aliases, name)))
           => LET k == Lookup(cd.aliases, name)
              IN  /\ last'.err = ""
                  /\ cd'.aliases = cd.aliases
                  /\ cd'.attrs = cd.attrs
                  /\ Len(cd'.items) = Len(cd.items)
                  /\ \A i \in 1..Len(cd.items) :
                         cd'.items[i] = IF cd.items[i][1] = k
                                        THEN <<k, value>> ELSE cd.items[i]]_vars

\* a set through the alias "_1" of the key 1 has replaced the value under 1
C12_Witness ==
    /\ last.op = "set" /\ last.err = "" /\ ~last.new
    /\ last.name = K_1 /\ last.key = K1
    /\ Len(cd.items) = 1 /\ cd.items[1] = <<K1, "v2">>
    /\ Len(cd.aliases) = 3

\* the container built from the three arguments __repr__(self) writes
Rebuilt(self, flag) ==
    LET p == __repr__(self)
    IN  __init__(p._mapping, Some(p._aliases), p._vars, flag)

\* C13: building a new container from the three parts __repr__ emits (the
\* items in order, the aliases that are not canonical keys with their
\* targets, the direct attributes other than the alias index) succeeds and
\* yields the same entries, the same alias-to-key mapping and the same direct
\* attributes.
C13_ReprRoundTrip ==
    LET r == Rebuilt(cd, expand)
    IN  /\ r.err = ""
        /\ r.cd.items = cd.items
        /\ MapOf(r.cd.aliases) = MapOf(cd.aliases)
        /\ MapOf(r.cd.attrs) = MapOf(cd.attrs)

\* the same round trip, for the containers in which every stored key is
\* registered as its own alias
C13_ReprRoundTripOfSelfAliased ==
    (\A i \in 1..Len(cd.items) :
         Has(cd.aliases, cd.items[i][1])
         /\ Lookup(cd.aliases, cd.items[i][1]) = cd.items[i][1])
    => C13_ReprRoundTrip

\* what item style get, set and delete of the name n do on the instance
\* self, the direct attributes left aside
ItemStyle(self, n, flag) ==
    LET bare(r) == [r EXCEPT !.cd.attrs = <<>>]
    IN  [get |-> __getitem__(self, n),
         set |-> bare(__setattr__(self, n, "v1", flag)),
         delete |-> bare(__delitem__(self, n))]

\* what the step setattr_direct(name, value) must keep and do
StoresDirectOnly(name, value) ==
    /\ last'.err = ""
    /\ cd'.items = cd.items
    /\ cd'.aliases = cd.aliases
    /\ ItemStyle(cd', name, expand) = ItemStyle(cd, name, expand)
    /\ ~Has(cd.aliases, name) => Get(cd', name) = "KeyError"
    /\ Has(cd'.attrs, name) /\ Lookup(cd'.attrs, name) = value
    /\ \A n \in Range(Keys(cd.attrs)) \ {name} :
           Has(cd'.attrs, n) /\ Lookup(cd'.attrs, n) = Lookup(cd.attrs, n)

\* C14 as stated: setattr_direct(n, v), for any name n, stores v only in the
\* direct attributes: the entries and the alias index are unchanged and n
\* does not become resolvable by item style get, set or delete.
C14_SetattrDirectAnyName ==
    [][/\ \A name \in DirectNames, value \in Values :
              SetattrDirect(name, value) => StoresDirectOnly(name, value)
       /\ SetattrDirect(K_aliases, <<>>)
              => cd'.items = cd.items /\ cd'.aliases = cd.aliases]_vars

\* C14, amended: setattr_direct(n, v), for a name n other than "_aliases",
\* stores v only in the direct attributes: the entries and the alias index
\* are unchanged, item style get, set and delete of n do what they did
\* before, and n stays unresolvable when it was.
C14_SetattrDirectOtherName ==
    [][\A name \in DirectNames, value \in Values :
           SetattrDirect(name, value) => StoresDirectOnly(name, value)]_vars

\* "_1" is an alias of a stored key and a direct attribute at once, with
\* different values
C14_Witness ==
    /\ last.op = "setattr_direct" /\ last.name = K_1
    /\ Has(cd.aliases, K_1) /\ Get(cd, K_1) = "v1"
    /\ Has(cd.attrs, K_1) /\ Lookup(cd.attrs, K_1) = "v2"

\* C15: get(x) and delete(x) of a name x that is not registered in the alias
\* index fail with KeyError, with AttributeError when the access is attribute
\* style, and leave the entries, the alias index and the direct attributes
\* unchanged.
C15_UnregisteredFails ==
    [][/\ \A name \in Names :
              (GetItem(name) /\ ~Has(cd.aliases, name))
              => last'.err = "KeyError" /\ exc' = "KeyError" /\ cd' = cd
       /\ \A name \in Names :
              (DelItem(name) /\ ~Has(cd.aliases, name))
              => last'.err = "KeyError" /\ exc' = "KeyError" /\ cd' = cd
       /\ \A name \in AttrStyleNames :
              (GetAttr(name) /\ ~Has(cd.aliases, name))
              => last'.err = "AttributeError" /\ exc' = "AttributeError"
                 /\ cd' = cd
       /\ \A name \in AttrStyleNames :
              (DelAttr(name) /\ ~Has(cd.aliases, name))
              => last'.err = "AttributeError" /\ exc' = "AttributeError"
                 /\ cd' = cd]_vars

\* an attribute style get of the unregistered "_True" has failed on an
\* instance that holds an entry and aliases
C15_Witness ==
    /\ last.op = "getattr" /\ last.name = K_True
    /\ last.err = "AttributeError" /\ exc = "AttributeError"
    /\ cd.items # <<>> /\ cd.aliases # <<>> /\ ~Has(cd.aliases, K_True)

\* C16: name_to_aliases(key) returns a list without duplicates whose first
\* element is key, and exactly <<key>> when expansion is disabled.  (That it
\* returns the same list for the same key and flag is how name_to_aliases is
\* built: it reads nothing but its argument and CleverDict.expand.)
C16_DerivedList ==
    last.op = "name_to_aliases"
    => /\ out # <<>>
       /\ out[1] = last.name
       /\ \A i, j \in 1..Len(out) : i # j => out[i] # out[j]
       /\ ~expand => out = <<last.name>>

\* the integer 1 has been expanded to three names
C16_Witness ==
    /\ last.op = "name_to_aliases" /\ last.name = K1
    /\ expand /\ scopes # <<>>
    /\ Len(out) = 3

\* C17: set(k, v) of a key k that is neither registered nor stored is atomic:
\* either it succeeds, k holding v and k and all of its derived aliases
\* resolving to k, or it fails with a collision and leaves the entries and
\* the alias index exactly as they were.
C17_SetNewKeyAtomic ==
    [][\A name \in KeyNames, value \in Values :
           (/\ SetItem(name, value)
            /\ ~Has(cd.aliases, name) /\ ~Has(cd.items, name))
           => IF last'.err = ""
              THEN /\ Get(cd', name) = value
                   /\ \A al \in Range(name_to_aliases(name, expand)) :
                          Has(cd'.aliases, al) /\ Lookup(cd'.aliases, al) = name
              ELSE /\ last'.err = "KeyError"
                   /\ cd'.items = cd.items
                   /\ cd'.aliases = cd.aliases]_vars

\* C18: after any sequence of operations, failed ones included, every
\* registered alias maps to a canonical key that is in the entries, so
\* get(a) and delete(a) succeed for every registered alias a.
C18_NoDanglingAlias ==
    \A i \in 1..Len(cd.aliases) :
        /\ Has(cd.items, cd.aliases[i][2])
        /\ __getitem__(cd, cd.aliases[i][1]).err = ""
        /\ __delitem__(cd, cd.aliases[i][1]).err = ""

\* C19: for every canonical key k in the entries, get_aliases(k) is not
\* empty and its first element is k.
C19_KeyFirstAlias ==
    \A i \in 1..Len(cd.items) :
        LET k == cd.items[i][1]
        IN  /\ get_key(cd, k).err = ""
            /\ get_aliases(cd, k) # <<>>
            /\ get_aliases(cd, k)[1] = k

\* C20: delete_alias(a) removes only entries of the alias index that resolve
\* to the canonical key a resolves to: every alias of another key stays,
\* with its target, whatever the expansion mode is.
C20_DeleteAliasFrame ==
    [][\A alias \in Names :
           (DeleteAlias(alias) /\ Has(cd.aliases, alias))
           => LET k == Lookup(cd.aliases, alias)
              IN  \A i \in 1..Len(cd.aliases) :
                       cd.aliases[i][2] # k
                       => /\ Has(cd'.aliases, cd.aliases[i][1])
                          /\ Lookup(cd'.aliases, cd.aliases[i][1])
                                 = cd.aliases[i][2]]_vars

====
